---- MODULE Spec2Model ----
(***************************************************************************)
(* Control coordinator of central-dump (control/src/app.ts, kept in the    *)
(* repository snapshot as src/.github/workflows/docker-image.yml lines     *)
(* 41-422) together with the capture agent (src/monitoring/src/app.ts).    *)
(*                                                                         *)
(* Every asynchronous handler is cut at its awaits: one action is the      *)
(* completion of the awaited operation followed by the synchronous code up *)
(* to the next await.                                                      *)
(***************************************************************************)
EXTENDS Integers, Sequences, FiniteSets, TLC

\* ---------------------------------------------------------------- bounds
MaxCopies == 2
MaxRegs == 6
MaxLen == 3
MaxSpawns == 4

\* The identities of two of the scan agents of the deployment.
Agents == {"scan1", "scan2"}

\* ------------------------------------------------------- capture contents
\* A capture file is a multiset of packets; a packet is named by the agent
\* that captured it.
NoPkts == [a \in Agents |-> 0]
OnePkt(a) == [x \in Agents |-> IF x = a THEN 1 ELSE 0]
PktSum(p, q) == [a \in Agents |-> p[a] + q[a]]
NoFile == [exists |-> FALSE, pkts |-> NoPkts]
CapFile(p) == [exists |-> TRUE, pkts |-> p]

\* File names of the capture directory that end in ".pcap".
RawName(a) == <<"dumpfile", a>>
MergedName == <<"merged", "">>
FilteredName == <<"filtered", "">>

\* A decoded record (tshark -T json): the text of a JSON file.  "array" is
\* a parseable packet array, "empty" is what the shell redirection leaves
\* when the decoder wrote nothing that parses.
NoJson == [exists |-> FALSE, text |-> "none", pkts |-> NoPkts]
JsonArray(p) == [exists |-> TRUE, text |-> "array", pkts |-> p]
JsonEmpty == [exists |-> TRUE, text |-> "empty", pkts |-> NoPkts]

\* How a run of the decoder ends: exit 0 with a parseable array, exit 0 with
\* output that does not parse, or a non-zero exit.  The redirection creates
\* the file in every case.
DecodeOutcomes == {"ok", "unreadable", "failed"}
Decoded(pkts, out) == IF out = "ok" THEN JsonArray(pkts) ELSE JsonEmpty

\* Filter configurations submitted by the operator (any JSON body is
\* accepted): the ip field as the set of addresses it lists (one address per
\* agent), or an ip field whose value is not a string (a number).
Configs ==
  {[ip |-> {}, ipIsString |-> TRUE],
   [ip |-> {"scan1"}, ipIsString |-> TRUE],
   [ip |-> {}, ipIsString |-> FALSE]}
NoConfig == [exists |-> FALSE, ip |-> {}, ipIsString |-> TRUE]
SavedConfig(c) == [exists |-> TRUE, ip |-> c.ip, ipIsString |-> c.ipIsString]

VARIABLES
  containerNames,  \* control: the registry array
  data,            \* the shared /data directory
  proc,            \* agent: tcpdumpProcess is non-null
  st,              \* control: GET /start handler in flight
  sp,              \* control: GET /stop handler in flight
  cf,              \* control: POST /config handler in flight
  cl,              \* control: GET /cleanConf handler in flight
  resp,            \* the response sent by the step just taken, if any
  regCalls,        \* history: identities passed to register, in call order
  stopTrace,       \* history: pipeline stages of the stop() in flight
  hMerge           \* history: what the most recent merge found and did, and
                   \* whether a stop() has ended in a merge or decode failure

vars == <<containerNames, data, proc, st, sp, cf, cl, resp, regCalls, stopTrace, hMerge>>

\* ------------------------------------------------------------ the store
\* log: control.log exists (it holds at least one entry).
EmptyStore ==
  [raws |-> {}, merged |-> NoFile, output |-> NoJson,
   filtered |-> NoFile, filteredJson |-> NoJson, config |-> NoConfig,
   log |-> FALSE]

\* What a finished earlier round leaves on the volume when the coordinator
\* process is started again (the registry is in memory, the volume is not):
\* one raw capture, its merge and decode, a saved empty config and the
\* filtered copies.  The same store is reached from the empty one by
\* register, start, stop, submitConfig.
LeftoverStore ==
  [raws |-> {"scan1"}, merged |-> CapFile(OnePkt("scan1")),
   output |-> JsonArray(OnePkt("scan1")),
   filtered |-> CapFile(OnePkt("scan1")), filteredJson |-> JsonArray(OnePkt("scan1")),
   config |-> SavedConfig([ip |-> {}, ipIsString |-> TRUE]),
   log |-> TRUE]

\* logEvent: fs.appendFileSync(logFilePath, msg) creates control.log if it
\* is missing and adds one line.
LogEvent(d) == [d EXCEPT !.log = TRUE]

\* fs.readdir(dir).filter(file => file.endsWith('.pcap'))
PcapFilesUnfiltered(d) ==
  {<<"dumpfile", a>> : a \in d.raws}
    \cup (IF d.merged.exists THEN {<<"merged", "">>} ELSE {})
    \cup (IF d.filtered.exists THEN {<<"filtered", "">>} ELSE {})
    \cup (IF d.config.exists THEN {<<"config", "">>} ELSE {})
PcapFiles(d) ==
  {RawName(a) : a \in d.raws}
    \cup (IF d.merged.exists THEN {MergedName} ELSE {})
    \cup (IF d.filtered.exists THEN {FilteredName} ELSE {})

\* The packets of one .pcap file of the directory.
PktsOf(d, f) ==
  IF f = MergedName THEN d.merged.pkts
  ELSE IF f = FilteredName THEN d.filtered.pkts
  ELSE OnePkt(f[2])

RECURSIVE SumPkts(_, _)
SumPkts(d, fs) ==
  IF fs = {} THEN NoPkts
  ELSE LET f == CHOOSE x \in fs : TRUE
       IN PktSum(PktsOf(d, f), SumPkts(d, fs \ {f}))

\* fs.unlink of one .pcap file.
UnlinkRawOnly(d, f) ==
  IF f[1] = "dumpfile" THEN [d EXCEPT !.raws = @ \ {f[2]}] ELSE d
Unlink(d, f) ==
  IF f = MergedName THEN [d EXCEPT !.merged = NoFile]
  ELSE IF f = FilteredName THEN [d EXCEPT !.filtered = NoFile]
  ELSE [d EXCEPT !.raws = @ \ {f[2]}]

\* --------------------------------------------------------- handler state
\* logged: the start() in flight has appended to the log.
IdleStart ==
  [pc |-> "idle", names |-> <<>>, calls |-> <<>>, files |-> {}, logged |-> FALSE]
IdleStop ==
  [pc |-> "idle", names |-> <<>>, calls |-> <<>>,
   pcapFiles |-> {}, config |-> NoConfig, jsonData |-> NoJson]
\* prev is history: the config that was persisted when the submission in
\* flight arrived.
IdleConfig == [pc |-> "idle", config |-> NoConfig, prev |-> NoConfig]
IdleClean == [pc |-> "idle"]

\* logged: the operation that is answered appended at least one log entry.
NoResp == [op |-> "none", status |-> 0, body |-> "none", name |-> "", results |-> <<>>,
           pcapData |-> NoJson, filterStatus |-> "undefined", error |-> "undefined",
           logged |-> FALSE]

\* No capture operation of the coordinator is in flight.
Quiet ==
  /\ st.pc = "idle"
  /\ sp.pc = "idle"
  /\ cf.pc = "idle"
  /\ cl.pc = "idle"

Init ==
  /\ containerNames = <<>>
  /\ data \in {EmptyStore, LeftoverStore}
  /\ proc = [a \in Agents |-> FALSE]
  /\ st = IdleStart
  /\ sp = IdleStop
  /\ cf = IdleConfig
  /\ cl = IdleClean
  /\ resp = NoResp
  /\ regCalls = <<>>
  /\ stopTrace = <<>>
  /\ hMerge = [raw |-> data.merged.exists,
               tool |-> IF data.merged.exists THEN "ok" ELSE "none",
               cleared |-> FALSE, failed |-> FALSE]

\* ------------------------------------------------------------- registry
\* if (containerNames.length === 0)
NeverEmpty(names) == FALSE
NoAgentsRegistered(names) == Len(names) = 0

\* containerNames.includes(name)
Includes(names, name) == \E i \in 1..Len(names) : names[i] = name

\* if (!containerNames.includes(containerName)) containerNames.push(containerName)
PushAlways(names, name) == Append(names, name)
PushMoveToEnd(names, name) ==
  Append(SelectSeq(names, LAMBDA x : x # name), name)
PushIfAbsent(names, name) ==
  IF Includes(names, name) THEN names ELSE Append(names, name)

\* GET /server-name/:containerName
RegisterHandler(name) ==
  /\ containerNames' = PushIfAbsent(containerNames, name)
  /\ resp' = [NoResp EXCEPT !.op = "register", !.status = 200,
                            !.body = "received", !.name = name]
  /\ UNCHANGED <<data, proc, st, sp, cf, cl, stopTrace, hMerge>>

Register(name) ==
  /\ RegisterHandler(name)
  /\ UNCHANGED regCalls

\* ----------------------------------------------------------------- agent
\* GET /start of the agent: refuses when tcpdumpProcess is set, otherwise
\* launches tcpdump -w /data/dumpfile_<name>.pcap, which creates the file.
AgentStartAlwaysAccepts(a) == 200
AgentStartStatus(a) == IF proc[a] THEN 400 ELSE 200
AgentStart(a) ==
  /\ proc' = [proc EXCEPT ![a] = TRUE]
  /\ data' = IF proc[a] THEN data ELSE [data EXCEPT !.raws = @ \cup {a}]

\* GET /stop of the agent: refuses when tcpdumpProcess is null, otherwise
\* kills the process and clears the reference.
AgentStopStatus(a) == IF proc[a] THEN 200 ELSE 400
AgentStop(a) ==
  /\ proc' = [proc EXCEPT ![a] = FALSE]

\* axios.get resolves on a 2xx answer and throws otherwise.
OutcomeOptimistic(remote) == "success"
Outcome(remote) == IF remote = 200 THEN "success" ELSE "failed"

\* Promise.all over the per-agent calls: every call has settled.
AnySettled(calls) == \E i \in 1..Len(calls) : calls[i] # "pending"
AllSettled(calls) == \A i \in 1..Len(calls) : calls[i] # "pending"

Results(names, calls) ==
  [i \in 1..Len(names) |-> [containerName |-> names[i], status |-> calls[i]]]

Pending(names) == [i \in 1..Len(names) |-> "pending"]

\* ----------------------------------------------------------- GET /start
\* clearOldPcaps after the loop: the next named file that exists, else the
\* broadcast.  after is the number of named files already dealt with.
ClearNextPcapOnly(d, after) == "broadcast"
ClearNext(d, after) ==
  IF after < 1 /\ d.output.exists THEN "rmOutput"
  ELSE IF after < 2 /\ d.filtered.exists THEN "rmFiltered"
  ELSE IF after < 3 /\ d.filteredJson.exists THEN "rmFilteredJson"
  ELSE "broadcast"

\* The rest of the handler up to its next await: either the unlink of a named
\* file, or the log entry that ends clearOldPcaps and containerNames.map(...)
\* issuing one axios.get per identity.  d is the directory as the step found
\* or left it.
StartProceed(d, after) ==
  LET pc == ClearNext(d, after)
  IN IF pc = "broadcast"
     THEN /\ st' = [pc |-> "broadcast", names |-> containerNames,
                    calls |-> Pending(containerNames), files |-> {}, logged |-> TRUE]
          /\ data' = LogEvent(d)
     ELSE /\ st' = [st EXCEPT !.pc = pc, !.files = {}]
          /\ data' = d

\* if (containerNames.length === 0) 400; else await clearOldPcaps -> fs.readdir
StartBegin ==
  /\ st.pc = "idle"
  /\ IF NoAgentsRegistered(containerNames)
     THEN /\ resp' = [NoResp EXCEPT !.op = "start", !.status = 400,
                                    !.body = "No container names available to start."]
          /\ UNCHANGED <<st, hMerge>>
     ELSE /\ st' = [st EXCEPT !.pc = "readdir"]
          /\ hMerge' = [hMerge EXCEPT !.cleared = TRUE]
          /\ resp' = NoResp
  /\ UNCHANGED <<containerNames, data, proc, sp, cf, cl, regCalls, stopTrace>>

\* const files = await fs.readdir(dir); first .pcap file: await fs.unlink
StartReaddir ==
  /\ st.pc = "readdir"
  /\ LET files == PcapFiles(data)
     IN IF files # {}
        THEN /\ st' = [st EXCEPT !.pc = "unlink", !.files = files]
             /\ data' = data
        ELSE StartProceed(data, 0)
  /\ resp' = NoResp
  /\ UNCHANGED <<containerNames, proc, sp, cf, cl, regCalls, stopTrace, hMerge>>

\* One fs.unlink of the loop completes; a file that is gone makes it throw
\* and the handler never answers.
StartUnlink ==
  /\ st.pc = "unlink"
  /\ \E f \in st.files :
       IF f \notin PcapFiles(data)
       THEN /\ st' = [st EXCEPT !.pc = "crashed"]
            /\ data' = data
       ELSE IF st.files \ {f} # {}
       THEN /\ st' = [st EXCEPT !.files = @ \ {f}]
            /\ data' = Unlink(data, f)
       ELSE StartProceed(Unlink(data, f), 0)
  /\ resp' = NoResp
  /\ UNCHANGED <<containerNames, proc, sp, cf, cl, regCalls, stopTrace, hMerge>>

\* The unlink of output.json, filtered.pcap or filtered.json completes.
StartClearNamedAndConfig ==
  /\ st.pc \in {"rmOutput", "rmFiltered", "rmFilteredJson"}
  /\ StartProceed(IF st.pc = "rmOutput"
                  THEN [data EXCEPT !.output = NoJson, !.config = NoConfig]
                  ELSE IF st.pc = "rmFiltered"
                  THEN [data EXCEPT !.filtered = NoFile, !.config = NoConfig]
                  ELSE [data EXCEPT !.filteredJson = NoJson, !.config = NoConfig],
                  IF st.pc = "rmOutput" THEN 1
                  ELSE IF st.pc = "rmFiltered" THEN 2 ELSE 3)
  /\ resp' = NoResp
  /\ UNCHANGED <<containerNames, proc, sp, cf, cl, regCalls, stopTrace, hMerge>>
StartClearNamed ==
  /\ st.pc \in {"rmOutput", "rmFiltered", "rmFilteredJson"}
  /\ StartProceed(IF st.pc = "rmOutput" THEN [data EXCEPT !.output = NoJson]
                  ELSE IF st.pc = "rmFiltered" THEN [data EXCEPT !.filtered = NoFile]
                  ELSE [data EXCEPT !.filteredJson = NoJson],
                  IF st.pc = "rmOutput" THEN 1
                  ELSE IF st.pc = "rmFiltered" THEN 2 ELSE 3)
  /\ resp' = NoResp
  /\ UNCHANGED <<containerNames, proc, sp, cf, cl, regCalls, stopTrace, hMerge>>

\* One axios.get of the start broadcast settles: the agent answers, or the
\* request never reaches it.
StartSettle(i, reach) ==
  /\ st.pc = "broadcast"
  /\ st.calls[i] = "pending"
  /\ LET a == st.names[i]
         answer == IF reach THEN AgentStartStatus(a) ELSE 0
     IN /\ IF reach THEN AgentStart(a) ELSE UNCHANGED <<proc, data>>
        /\ st' = [st EXCEPT !.calls[i] = Outcome(answer)]
  /\ resp' = NoResp
  /\ UNCHANGED <<containerNames, sp, cf, cl, regCalls, stopTrace, hMerge>>

\* res.json({ message, results }) once Promise.all resolves
StartRespond ==
  /\ st.pc = "broadcast"
  /\ AllSettled(st.calls)
  /\ resp' = [NoResp EXCEPT !.op = "start", !.status = 200,
                            !.body = "Start signal sent to all scan dockers.",
                            !.results = Results(st.names, st.calls),
                            !.logged = st.logged]
  /\ st' = IdleStart
  /\ UNCHANGED <<containerNames, data, proc, sp, cf, cl, regCalls, stopTrace, hMerge>>

\* ----------------------------------------------------- filter pipeline
\* buildWiresharkFilterFromConfig on the ip field: the OR of one address
\* predicate per listed value, the empty expression when none is listed.
FilterExpr(c) == c.ip

\* multiFilter calls config[field].split(','): a truthy value that is not a
\* string makes the compiler throw a TypeError.
Compiles(c) == c.ipIsString

\* tshark -r merged -Y expr -w filtered, or cp merged filtered when the
\* expression is empty.
ApplyFilter(expr, pkts) ==
  IF expr = {} THEN pkts
  ELSE [a \in Agents |-> IF a \in expr THEN pkts[a] ELSE 0]

\* The filter command has run: on success filtered.pcap is rewritten from
\* the merged capture, on failure the directory is left as it was.
FilterCmdDone(d, c, ok) ==
  LogEvent(IF ok
           THEN [d EXCEPT !.filtered = CapFile(ApplyFilter(FilterExpr(c), d.merged.pkts))]
           ELSE d)

\* pcapToJson(filteredPcapFile, filteredJsonFile) has run: the redirection
\* creates the file, the decoder fills it on success.
FilterDecodeKeepsStale(d, out) ==
  IF out = "ok" THEN [d EXCEPT !.filteredJson = JsonArray(d.filtered.pkts)] ELSE d
FilterDecodeDone(d, out) ==
  LogEvent([d EXCEPT !.filteredJson = Decoded(d.filtered.pkts, out)])

\* The tagged results of filterPcapAndJson.
FilterOk(json) == [status |-> "ok", filteredJsonData |-> json, errorMsg |-> "undefined"]
FilterKo == [status |-> "ko", filteredJsonData |-> NoJson, errorMsg |-> "Filtering failed"]

\* After the decoder of the filtered capture: a rejected decode or a
\* JSON.parse that throws lands in the catch ('ko'), a parsed filtered.json
\* is returned with 'ok'.
FilterResultUnparsed(d, out) ==
  IF out # "failed" THEN FilterOk(d.filteredJson) ELSE FilterKo
FilterResult(d, out) ==
  IF out # "failed" /\ d.filteredJson.exists /\ d.filteredJson.text = "array"
  THEN FilterOk(d.filteredJson)
  ELSE FilterKo

\* A tool can only succeed on an input file that exists.
CanRun(file, ok) == ok => file.exists

\* ------------------------------------------------------------ GET /stop
StopError(msg) ==
  [NoResp EXCEPT !.op = "stop", !.status = 500, !.body = msg, !.logged = TRUE]

\* res.json({ message, results, pcapData: filteredJsonData || JSON.parse(jsonData),
\*            filterStatus, error: filterStatus === 'ko' ? errorMsg : undefined })
StopAnswerRawOnly(h, filterStatus, filteredJsonData, errorMsg) ==
  [NoResp EXCEPT !.op = "stop", !.status = 200,
                 !.body = "Stop signal sent to all scan dockers.",
                 !.results = Results(h.names, h.calls),
                 !.pcapData = h.jsonData,
                 !.filterStatus = filterStatus,
                 !.error = IF filterStatus = "ko" THEN errorMsg ELSE "undefined",
                 !.logged = TRUE]
StopAnswer(h, filterStatus, filteredJsonData, errorMsg) ==
  IF ~filteredJsonData.exists /\ h.jsonData.text # "array"
  THEN StopError("Unexpected end of JSON input")
  ELSE [NoResp EXCEPT !.op = "stop", !.status = 200,
                      !.body = "Stop signal sent to all scan dockers.",
                      !.results = Results(h.names, h.calls),
                      !.pcapData = IF filteredJsonData.exists THEN filteredJsonData
                                   ELSE h.jsonData,
                      !.filterStatus = filterStatus,
                      !.error = IF filterStatus = "ko" THEN errorMsg ELSE "undefined",
                      !.logged = TRUE]

\* if (containerNames.length === 0) 400; else containerNames.map(...) issues
\* one axios.get per identity.
StopBegin ==
  /\ sp.pc = "idle"
  /\ data.filtered.exists => \A a \in Agents : data.filtered.pkts[a] < MaxCopies
  /\ IF NoAgentsRegistered(containerNames)
     THEN /\ resp' = [NoResp EXCEPT !.op = "stop", !.status = 400,
                                    !.body = "No container names available to stop."]
          /\ UNCHANGED <<sp, stopTrace>>
     ELSE /\ sp' = [IdleStop EXCEPT !.pc = "broadcast", !.names = containerNames,
                                    !.calls = Pending(containerNames)]
          /\ stopTrace' = <<>>
          /\ resp' = NoResp
  /\ UNCHANGED <<containerNames, data, proc, st, cf, cl, regCalls, hMerge>>

\* One axios.get of the stop broadcast settles.
StopSettle(i, reach) ==
  /\ sp.pc = "broadcast"
  /\ sp.calls[i] = "pending"
  /\ LET a == sp.names[i]
         answer == IF reach THEN AgentStopStatus(a) ELSE 0
     IN /\ IF reach THEN AgentStop(a) ELSE UNCHANGED proc
        /\ data' = LogEvent(data)
        /\ sp' = [sp EXCEPT !.calls[i] = Outcome(answer)]
  /\ resp' = NoResp
  /\ UNCHANGED <<containerNames, st, cf, cl, regCalls, stopTrace, hMerge>>

\* Promise.all resolves; await new Promise(resolve => setTimeout(resolve, 5000))
StopJoinNoGrace ==
  /\ sp.pc = "broadcast"
  /\ AllSettled(sp.calls)
  /\ sp' = [sp EXCEPT !.pc = "rm"]
  /\ stopTrace' = Append(stopTrace, "settled")
  /\ resp' = NoResp
  /\ UNCHANGED <<containerNames, data, proc, st, cf, cl, regCalls, hMerge>>
StopJoin ==
  /\ sp.pc = "broadcast"
  /\ AllSettled(sp.calls)
  /\ sp' = [sp EXCEPT !.pc = "grace"]
  /\ stopTrace' = Append(stopTrace, "settled")
  /\ resp' = NoResp
  /\ UNCHANGED <<containerNames, data, proc, st, cf, cl, regCalls, hMerge>>

\* The timer fires; mergePcaps: await fs.rm(mergedPcapFile, { force: true })
StopGraceElapsed ==
  /\ sp.pc = "grace"
  /\ sp' = [sp EXCEPT !.pc = "rm"]
  /\ stopTrace' = Append(stopTrace, "grace")
  /\ resp' = NoResp
  /\ UNCHANGED <<containerNames, data, proc, st, cf, cl, regCalls, hMerge>>

\* fs.rm has removed merged.pcap; await fs.readdir(dir)
StopRmDone ==
  /\ sp.pc = "rm"
  /\ data' = [data EXCEPT !.merged = NoFile]
  /\ sp' = [sp EXCEPT !.pc = "readdir"]
  /\ resp' = NoResp
  /\ UNCHANGED <<containerNames, proc, st, cf, cl, regCalls, stopTrace, hMerge>>

\* pcapFiles = the .pcap files of the directory; none: throw, caught by the
\* handler (500); else exec(mergecap -w merged.pcap ...pcapFiles)
StopReaddirDone ==
  /\ sp.pc = "readdir"
  /\ hMerge' = [raw |-> data.raws # {}, tool |-> "none", cleared |-> FALSE,
                failed |-> hMerge.failed]
  /\ LET pcapFiles == PcapFiles(data)
     IN IF pcapFiles = {}
        THEN /\ resp' = StopError("No .pcap files found to merge.")
             /\ sp' = IdleStop
             /\ stopTrace' = <<>>
        ELSE /\ sp' = [sp EXCEPT !.pc = "mergecap", !.pcapFiles = pcapFiles]
             /\ stopTrace' = Append(stopTrace, "merge")
             /\ resp' = NoResp
  /\ UNCHANGED <<containerNames, data, proc, st, cf, cl, regCalls>>

\* mergecap exits.  Success: merged.pcap holds the packets of every input and
\* pcapToJson(merged.pcap, output.json) is started.  Failure: the output may
\* or may not have been created; the error is caught by the handler (500).
StopMergecapHangs(ok, left) ==
  /\ sp.pc = "mergecap"
  /\ ok => left
  /\ ok => sp.pcapFiles \subseteq PcapFiles(data)
  /\ hMerge' = [hMerge EXCEPT !.tool = IF ok THEN "ok" ELSE "failed",
                              !.failed = @ \/ ~ok]
  /\ IF ok
     THEN /\ data' = [data EXCEPT !.merged = CapFile(SumPkts(data, sp.pcapFiles))]
          /\ sp' = [sp EXCEPT !.pc = "decode"]
          /\ stopTrace' = Append(stopTrace, "decode")
     ELSE /\ data' = [data EXCEPT !.merged = IF left THEN CapFile(NoPkts) ELSE NoFile]
          /\ UNCHANGED <<sp, stopTrace>>
  /\ resp' = NoResp
  /\ UNCHANGED <<containerNames, proc, st, cf, cl, regCalls>>
StopMergecapDone(ok, left) ==
  /\ sp.pc = "mergecap"
  /\ ok => left
  /\ ok => sp.pcapFiles \subseteq PcapFiles(data)
  /\ hMerge' = [hMerge EXCEPT !.tool = IF ok THEN "ok" ELSE "failed",
                              !.failed = @ \/ ~ok]
  /\ IF ok
     THEN /\ data' = [data EXCEPT !.merged = CapFile(SumPkts(data, sp.pcapFiles))]
          /\ sp' = [sp EXCEPT !.pc = "decode"]
          /\ stopTrace' = Append(stopTrace, "decode")
          /\ resp' = NoResp
     ELSE /\ data' = [data EXCEPT !.merged = IF left THEN CapFile(NoPkts) ELSE NoFile]
          /\ resp' = StopError("Command failed: mergecap")
          /\ sp' = IdleStop
          /\ stopTrace' = <<>>
  /\ UNCHANGED <<containerNames, proc, st, cf, cl, regCalls>>

\* tshark -r merged.pcap -T json > output.json exits.  Exit 0: config =
\* getLatestConfig(); await fs.readFile(output.json).  Otherwise the rejection
\* is caught by the handler (500).
StopDecodeKeepsOld(out) ==
  /\ sp.pc = "decode"
  /\ CanRun(data.merged, out # "failed")
  /\ data' = IF out = "ok" THEN [data EXCEPT !.output = JsonArray(data.merged.pkts)]
             ELSE data
  /\ IF out # "failed" \/ data.output.exists
     THEN /\ sp' = [sp EXCEPT !.pc = "readFile", !.config = data.config]
          /\ resp' = NoResp
          /\ stopTrace' = stopTrace
     ELSE /\ resp' = StopError("Command failed: tshark")
          /\ sp' = IdleStop
          /\ stopTrace' = <<>>
  /\ hMerge' = [hMerge EXCEPT !.failed = @ \/ (out = "failed" /\ ~data.output.exists)]
  /\ UNCHANGED <<containerNames, proc, st, cf, cl, regCalls>>
StopDecodeDone(out) ==
  /\ sp.pc = "decode"
  /\ CanRun(data.merged, out # "failed")
  /\ data' = [data EXCEPT !.output = Decoded(data.merged.pkts, out)]
  /\ IF out # "failed"
     THEN /\ sp' = [sp EXCEPT !.pc = "readFile", !.config = data.config]
          /\ resp' = NoResp
     ELSE /\ resp' = StopError("Command failed: tshark")
          /\ sp' = IdleStop
  /\ stopTrace' = IF out # "failed" THEN stopTrace ELSE <<>>
  /\ hMerge' = [hMerge EXCEPT !.failed = @ \/ out = "failed"]
  /\ UNCHANGED <<containerNames, proc, st, cf, cl, regCalls>>

\* fs.readFile resolves (or throws: 500).  With a config the filter is
\* compiled (a throw is caught: 500) and the filter command is started;
\* without one the handler answers with the decoded record.
StopReadFileDone ==
  /\ sp.pc = "readFile"
  /\ IF ~data.output.exists
     THEN /\ resp' = StopError("ENOENT")
          /\ sp' = IdleStop
          /\ stopTrace' = <<>>
     ELSE IF sp.config.exists /\ ~Compiles(sp.config)
     THEN /\ resp' = StopError("config[field].split is not a function")
          /\ sp' = IdleStop
          /\ stopTrace' = <<>>
     ELSE IF sp.config.exists
     THEN /\ sp' = [sp EXCEPT !.pc = "filterCmd", !.jsonData = data.output]
          /\ stopTrace' = Append(stopTrace, "filter")
          /\ resp' = NoResp
     ELSE /\ resp' = StopAnswer([sp EXCEPT !.jsonData = data.output],
                                "undefined", NoJson, "undefined")
          /\ sp' = IdleStop
          /\ stopTrace' = <<>>
  /\ UNCHANGED <<containerNames, data, proc, st, cf, cl, regCalls, hMerge>>

\* filterPcapAndJson: the filter command exits.  Success: pcapToJson of the
\* filtered capture is started.  Failure: status 'ko', the handler answers.
StopFilterCmdDone(ok) ==
  /\ sp.pc = "filterCmd"
  /\ CanRun(data.merged, ok)
  /\ data' = FilterCmdDone(data, sp.config, ok)
  /\ IF ok
     THEN /\ sp' = [sp EXCEPT !.pc = "filterDecode"]
          /\ resp' = NoResp
     ELSE /\ resp' = StopAnswer(sp, FilterKo.status, FilterKo.filteredJsonData,
                                FilterKo.errorMsg)
          /\ sp' = IdleStop
  /\ stopTrace' = IF ok THEN stopTrace ELSE <<>>
  /\ UNCHANGED <<containerNames, proc, st, cf, cl, regCalls, hMerge>>

\* filterPcapAndJson: the decoder of the filtered capture exits; status 'ok'
\* with the parsed filtered.json, or 'ko'; the handler answers.
StopFilterDecodeDone(out) ==
  /\ sp.pc = "filterDecode"
  /\ CanRun(data.filtered, out # "failed")
  /\ data' = FilterDecodeDone(data, out)
  /\ LET r == FilterResult(data', out)
     IN resp' = StopAnswer(sp, r.status, r.filteredJsonData, r.errorMsg)
  /\ sp' = IdleStop
  /\ stopTrace' = <<>>
  /\ UNCHANGED <<containerNames, proc, st, cf, cl, regCalls, hMerge>>

\* --------------------------------------------------------- POST /config
\* The three answers of the handler after saveConfig.
ConfigAnswer(filterStatus, filteredJsonData, errorMsg) ==
  IF filterStatus = "ok" /\ filteredJsonData.exists
  THEN [NoResp EXCEPT !.op = "config", !.status = 200,
                      !.body = "Configuration saved and filtering succeeded",
                      !.pcapData = filteredJsonData, !.logged = TRUE]
  ELSE IF filterStatus = "ko"
  THEN [NoResp EXCEPT !.op = "config", !.status = 422,
                      !.body = "Configuration saved but filtering failed",
                      !.error = errorMsg, !.logged = TRUE]
  ELSE [NoResp EXCEPT !.op = "config", !.status = 200,
                      !.body = "Configuration saved successfully (no merged.pcap to filter yet)"]

\* res.status(500).json({ message: 'Failed to save configuration' })
ConfigError ==
  [NoResp EXCEPT !.op = "config", !.status = 500, !.body = "Failed to save configuration",
                 !.logged = TRUE]

\* saveConfig(config); with a merged.pcap the filter is compiled (a throw is
\* caught: 500) and the filter command is started, without one filterStatus
\* keeps its initial 'ko' and the handler answers.
ConfigSubmit(c) ==
  /\ cf.pc = "idle"
  /\ data' = IF data.merged.exists /\ Compiles(c)
             THEN [data EXCEPT !.config = SavedConfig(c)]
             ELSE LogEvent([data EXCEPT !.config = SavedConfig(c)])
  /\ IF data.merged.exists /\ ~Compiles(c)
     THEN /\ resp' = ConfigError
          /\ cf' = IdleConfig
     ELSE IF data.merged.exists
     THEN /\ cf' = [pc |-> "filterCmd", config |-> SavedConfig(c), prev |-> data.config]
          /\ resp' = NoResp
     ELSE /\ resp' = ConfigAnswer("ko", NoJson, "undefined")
          /\ cf' = IdleConfig
  /\ UNCHANGED <<containerNames, proc, st, sp, cl, regCalls, stopTrace, hMerge>>

ConfigFilterCmdDone(ok) ==
  /\ cf.pc = "filterCmd"
  /\ CanRun(data.merged, ok)
  /\ data' = FilterCmdDone(data, cf.config, ok)
  /\ IF ok
     THEN /\ cf' = [cf EXCEPT !.pc = "filterDecode"]
          /\ resp' = NoResp
     ELSE /\ resp' = ConfigAnswer(FilterKo.status, FilterKo.filteredJsonData,
                                  FilterKo.errorMsg)
          /\ cf' = IdleConfig
  /\ UNCHANGED <<containerNames, proc, st, sp, cl, regCalls, stopTrace, hMerge>>

ConfigFilterDecodeDone(out) ==
  /\ cf.pc = "filterDecode"
  /\ CanRun(data.filtered, out # "failed")
  /\ data' = FilterDecodeDone(data, out)
  /\ LET r == FilterResult(data', out)
     IN resp' = ConfigAnswer(r.status, r.filteredJsonData, r.errorMsg)
  /\ cf' = IdleConfig
  /\ UNCHANGED <<containerNames, proc, st, sp, cl, regCalls, stopTrace, hMerge>>

\* ------------------------------------------------------- GET /cleanConf
\* The loop over config.json, filtered.pcap, filtered.json: the next file
\* that exists is unlinked, after the last one the handler answers.
CleanNextConfigOnly(d, after) ==
  IF after < 1 /\ d.config.exists THEN "rmConfig" ELSE "idle"
CleanNext(d, after) ==
  IF after < 1 /\ d.config.exists THEN "rmConfig"
  ELSE IF after < 2 /\ d.filtered.exists THEN "rmFiltered"
  ELSE IF after < 3 /\ d.filteredJson.exists THEN "rmFilteredJson"
  ELSE "idle"

CleanProceed(d, after) ==
  LET pc == CleanNext(d, after)
  IN /\ cl' = [pc |-> pc]
     /\ IF pc = "idle"
        THEN resp' = [NoResp EXCEPT !.op = "cleanConf", !.status = 200,
                                   !.body = "Config and filtered files cleaned."]
        ELSE resp' = NoResp

CleanBegin ==
  /\ cl.pc = "idle"
  /\ CleanProceed(data, 0)
  /\ UNCHANGED <<containerNames, data, proc, st, sp, cf, regCalls, stopTrace, hMerge>>

CleanUnlinkDone ==
  /\ cl.pc \in {"rmConfig", "rmFiltered", "rmFilteredJson"}
  /\ data' = IF cl.pc = "rmConfig" THEN [data EXCEPT !.config = NoConfig]
             ELSE IF cl.pc = "rmFiltered" THEN [data EXCEPT !.filtered = NoFile]
             ELSE [data EXCEPT !.filteredJson = NoJson]
  /\ CleanProceed(data', IF cl.pc = "rmConfig" THEN 1
                         ELSE IF cl.pc = "rmFiltered" THEN 2 ELSE 3)
  /\ UNCHANGED <<containerNames, proc, st, sp, cf, regCalls, stopTrace, hMerge>>

\* ------------------------------------------------------- specifications
\* The operator issues start, stop, config and cleanConf one at a time;
\* agents register at any moment.
Next ==
  \/ \E name \in Agents : Register(name)
  \/ Quiet /\ StartBegin
  \/ StartReaddir
  \/ StartUnlink
  \/ StartClearNamed
  \/ \E i \in DOMAIN st.calls, reach \in BOOLEAN : StartSettle(i, reach)
  \/ StartRespond
  \/ Quiet /\ StopBegin
  \/ \E i \in DOMAIN sp.calls, reach \in BOOLEAN : StopSettle(i, reach)
  \/ StopJoin
  \/ StopGraceElapsed
  \/ StopRmDone
  \/ StopReaddirDone
  \/ \E ok, left \in BOOLEAN : StopMergecapDone(ok, left)
  \/ \E out \in DecodeOutcomes : StopDecodeDone(out)
  \/ StopReadFileDone
  \/ \E ok \in BOOLEAN : StopFilterCmdDone(ok)
  \/ \E out \in DecodeOutcomes : StopFilterDecodeDone(out)
  \/ Quiet /\ \E c \in Configs : ConfigSubmit(c)
  \/ \E ok \in BOOLEAN : ConfigFilterCmdDone(ok)
  \/ \E out \in DecodeOutcomes : ConfigFilterDecodeDone(out)
  \/ Quiet /\ CleanBegin
  \/ CleanUnlinkDone

Spec == Init /\ [][Next]_vars

\* Every awaited promise of a stop() in flight settles (the agent calls
\* answer or fail, the timer fires, the tools exit) and the event loop then
\* runs the continuation of the handler.
StopStep ==
  \/ \E i \in DOMAIN sp.calls, reach \in BOOLEAN : StopSettle(i, reach)
  \/ StopJoin
  \/ StopGraceElapsed
  \/ StopRmDone
  \/ StopReaddirDone
  \/ \E ok, left \in BOOLEAN : StopMergecapDone(ok, left)
  \/ \E out \in DecodeOutcomes : StopDecodeDone(out)
  \/ StopReadFileDone
  \/ \E ok \in BOOLEAN : StopFilterCmdDone(ok)
  \/ \E out \in DecodeOutcomes : StopFilterDecodeDone(out)

SpecLive == Init /\ [][Next]_vars /\ WF_vars(StopStep)

\* Only register calls, with the sequence of calls kept as history.
RegisterLogged(name) ==
  /\ Len(regCalls) < MaxRegs
  /\ RegisterHandler(name)
  /\ regCalls' = Append(regCalls, name)

NextReg == \E name \in Agents : RegisterLogged(name)

SpecReg == Init /\ [][NextReg]_vars

\* -------------------------------------------------- overlapping requests
\* The handlers are async functions of one Express app with no lock or
\* in-flight flag: a request that arrives while another handler is suspended
\* at an await starts running.  Here the operator issues stop and config
\* submissions only, and either may arrive while the other is in flight.
NextConc ==
  \/ \E name \in Agents : Register(name)
  \/ StopBegin
  \/ \E i \in DOMAIN sp.calls, reach \in BOOLEAN : StopSettle(i, reach)
  \/ StopJoin
  \/ StopGraceElapsed
  \/ StopRmDone
  \/ StopReaddirDone
  \/ \E ok, left \in BOOLEAN : StopMergecapDone(ok, left)
  \/ \E out \in DecodeOutcomes : StopDecodeDone(out)
  \/ StopReadFileDone
  \/ \E ok \in BOOLEAN : StopFilterCmdDone(ok)
  \/ \E out \in DecodeOutcomes : StopFilterDecodeDone(out)
  \/ \E c \in Configs : ConfigSubmit(c)
  \/ \E ok \in BOOLEAN : ConfigFilterCmdDone(ok)
  \/ \E out \in DecodeOutcomes : ConfigFilterDecodeDone(out)

SpecConc == Init /\ [][NextConc]_vars

\* ------------------------------------------------- a failing log sink
\* fs.appendFileSync throws inside logEvent.  again: the next logEvent of the
\* same request succeeds.

\* The logEvent that ends clearOldPcaps throws: the awaited call rejects in
\* the handler, outside any try, and the request is never answered.
StartClearLogFault ==
  /\ \/ /\ st.pc = "readdir"
        /\ PcapFiles(data) = {}
        /\ ClearNext(data, 0) = "broadcast"
        /\ data' = data
     \/ /\ st.pc = "rmFilteredJson"
        /\ data' = [data EXCEPT !.filteredJson = NoJson]
  /\ st' = [st EXCEPT !.pc = "crashed"]
  /\ resp' = NoResp
  /\ UNCHANGED <<containerNames, proc, sp, cf, cl, regCalls, stopTrace, hMerge>>

\* One axios.get of the start broadcast settles and the logEvent that
\* follows throws.  After a successful call the throw lands in the catch of
\* the callback, whose own logEvent either succeeds ('failed' is returned)
\* or throws as well; a throw in the catch rejects Promise.all.
StartSettleLogFault(i, reach, again) ==
  /\ st.pc = "broadcast"
  /\ st.calls[i] = "pending"
  /\ LET a == st.names[i]
         answer == IF reach THEN AgentStartStatus(a) ELSE 0
     IN /\ IF reach THEN AgentStart(a) ELSE UNCHANGED <<proc, data>>
        /\ st' = IF Outcome(answer) = "success" /\ again
                 THEN [st EXCEPT !.calls[i] = "failed"]
                 ELSE [st EXCEPT !.pc = "crashed"]
  /\ resp' = NoResp
  /\ UNCHANGED <<containerNames, sp, cf, cl, regCalls, stopTrace, hMerge>>

\* The same for one axios.get of the stop broadcast.
StopSettleLogFault(i, reach, again) ==
  /\ sp.pc = "broadcast"
  /\ sp.calls[i] = "pending"
  /\ LET a == sp.names[i]
         answer == IF reach THEN AgentStopStatus(a) ELSE 0
     IN /\ IF reach THEN AgentStop(a) ELSE UNCHANGED proc
        /\ IF Outcome(answer) = "success" /\ again
           THEN /\ sp' = [sp EXCEPT !.calls[i] = "failed"]
                /\ data' = LogEvent(data)
           ELSE /\ sp' = [sp EXCEPT !.pc = "crashed"]
                /\ data' = data
  /\ resp' = NoResp
  /\ UNCHANGED <<containerNames, st, cf, cl, regCalls, stopTrace, hMerge>>

\* POST /config without a merged.pcap: the logEvent before the 422 answer
\* throws into the catch of the handler, whose logEvent either succeeds (500)
\* or throws as well (no answer).
ConfigSubmitLogFault(c, again) ==
  /\ cf.pc = "idle"
  /\ ~data.merged.exists
  /\ IF again
     THEN /\ data' = LogEvent([data EXCEPT !.config = SavedConfig(c)])
          /\ resp' = ConfigError
          /\ cf' = IdleConfig
     ELSE /\ data' = [data EXCEPT !.config = SavedConfig(c)]
          /\ resp' = NoResp
          /\ cf' = [cf EXCEPT !.pc = "crashed"]
  /\ UNCHANGED <<containerNames, proc, st, sp, cl, regCalls, stopTrace, hMerge>>

NextLogFault ==
  \/ Next
  \/ StartClearLogFault
  \/ \E i \in DOMAIN st.calls, reach, again \in BOOLEAN : StartSettleLogFault(i, reach, again)
  \/ \E i \in DOMAIN sp.calls, reach, again \in BOOLEAN : StopSettleLogFault(i, reach, again)
  \/ Quiet /\ \E c \in Configs, again \in BOOLEAN : ConfigSubmitLogFault(c, again)

SpecLogFault == Init /\ [][NextLogFault]_vars

\* ------------------------------------------------------ filter compiler
\* buildWiresharkFilterFromConfig on a request body.  A body is the list of
\* its key/value pairs in the order they were written; a value is a string
\* (a sequence of characters) or a number.
Chars == {" ", ",", "/", "a", "B"}
Strings == UNION {[1..n -> Chars] : n \in 0..MaxLen}
StrVal(str) == [type |-> "string", s |-> str, n |-> 0]
NumVal(num) == [type |-> "number", s |-> <<>>, n |-> num]
Undefined == [type |-> "undefined", s |-> <<>>, n |-> 0]
Values == {StrVal(str) : str \in Strings} \cup {NumVal(0), NumVal(80)}

\* The recognized fields in the order the compiler looks at them.
Fields ==
  <<"ip", "port", "protocol", "sourceIp", "destinationIp", "sourcePort",
    "destinationPort", "packetSizeMin", "packetSizeMax", "timeRange",
    "tcpFlags", "payloadContent", "macAddress">>
MultiFields ==
  {"ip", "port", "protocol", "sourceIp", "destinationIp", "sourcePort",
   "destinationPort", "tcpFlags", "payloadContent", "macAddress"}
Keys == {Fields[i] : i \in DOMAIN Fields} \cup {"comment"}

Pair(k, v) == [key |-> k, val |-> v]

\* config[field]: the value of the last pair with that key.
Get(body, k) ==
  LET idx == {i \in DOMAIN body : body[i].key = k}
  IN IF idx = {} THEN Undefined
     ELSE body[CHOOSE i \in idx : \A j \in idx : j <= i].val

\* JavaScript truthiness of a value.
TruthyDefined(v) == v.type # "undefined"
Truthy(v) ==
  \/ v.type = "string" /\ Len(v.s) > 0
  \/ v.type = "number" /\ v.n # 0

\* String.prototype.split(sep)
RECURSIVE Split(_, _)
Split(str, sep) ==
  LET idx == {i \in DOMAIN str : str[i] = sep}
  IN IF idx = {} THEN <<str>>
     ELSE LET i == CHOOSE x \in idx : \A y \in idx : x <= y
          IN <<SubSeq(str, 1, i - 1)>> \o Split(SubSeq(str, i + 1, Len(str)), sep)

\* String.prototype.trim()
RECURSIVE Trim(_)
Trim(str) ==
  IF str = <<>> THEN str
  ELSE IF str[1] = " " THEN Trim(Tail(str))
  ELSE IF str[Len(str)] = " " THEN Trim(SubSeq(str, 1, Len(str) - 1))
  ELSE str

\* String.prototype.toLowerCase()
Lower(str) == [i \in DOMAIN str |-> IF str[i] = "B" THEN "b" ELSE str[i]]

\* .map(v => v.trim())
MapTrim(parts) == [i \in DOMAIN parts |-> Trim(parts[i])]

\* .filter(Boolean)
KeepBlank(parts) == parts
DropBlank(parts) == SelectSeq(parts, LAMBDA x : x # <<>>)

\* The callback of each multi-value field, as the tokens it writes.
Pred(f, v) ==
  CASE f = "ip" -> <<"ip.addr == ">> \o v
    [] f = "port" -> <<"(tcp.port == ">> \o v \o <<" or udp.port == ">> \o v \o <<")">>
    [] f = "protocol" -> Lower(v)
    [] f = "sourceIp" -> <<"ip.src == ">> \o v
    [] f = "destinationIp" -> <<"ip.dst == ">> \o v
    [] f = "sourcePort" ->
         <<"(tcp.srcport == ">> \o v \o <<" or udp.srcport == ">> \o v \o <<")">>
    [] f = "destinationPort" ->
         <<"(tcp.dstport == ">> \o v \o <<" or udp.dstport == ">> \o v \o <<")">>
    [] f = "tcpFlags" -> <<"tcp.flags.">> \o Lower(v) \o <<" == 1">>
    [] f = "payloadContent" -> <<"frame contains \"">> \o v \o <<"\"">>
    [] f = "macAddress" -> <<"eth.addr == ">> \o v

\* Array.prototype.join(sep) over token sequences.
RECURSIVE Join(_, _)
Join(parts, sep) ==
  IF parts = <<>> THEN <<>>
  ELSE IF Len(parts) = 1 THEN parts[1]
  ELSE parts[1] \o <<sep>> \o Join(Tail(parts), sep)

\* `${value}` in a template literal.
Text(v) == IF v.type = "number" THEN <<"80">> ELSE v.s

NoClause == [threw |-> FALSE, clauses |-> <<>>]
Threw == [threw |-> TRUE, clauses |-> <<>>]
Clauses(cs) == [threw |-> FALSE, clauses |-> cs]

\* multiFilter(field, cb) followed by filters.push(`(${...})`)
MultiFilter(body, f) ==
  LET v == Get(body, f)
  IN IF ~Truthy(v) THEN NoClause
     ELSE IF v.type # "string" THEN Threw
     ELSE LET values == DropBlank(MapTrim(Split(v.s, ",")))
          IN IF values = <<>> THEN NoClause
             ELSE Clauses(<< <<"(">>
                    \o Join([i \in DOMAIN values |-> Pred(f, values[i])], " or ")
                    \o <<")">> >>)

\* if (config.packetSizeMin) filters.push(`frame.len >= ${config.packetSizeMin}`)
SizeClause(body, f) ==
  LET v == Get(body, f)
  IN IF ~Truthy(v) THEN NoClause
     ELSE Clauses(<< <<IF f = "packetSizeMin" THEN "frame.len >= " ELSE "frame.len <= ">>
                     \o Text(v) >>)

\* const [start, end] = config.timeRange.split('/')
TimeClauses(body) ==
  LET v == Get(body, "timeRange")
  IN IF ~Truthy(v) THEN NoClause
     ELSE IF v.type # "string" THEN Threw
     ELSE LET parts == Split(v.s, "/")
              start == parts[1]
              end == IF Len(parts) >= 2 THEN parts[2] ELSE <<>>
          IN Clauses(
               (IF start # <<>> THEN << <<"frame.time >= \"">> \o start \o <<"\"">> >>
                ELSE <<>>)
               \o (IF end # <<>> THEN << <<"frame.time <= \"">> \o end \o <<"\"">> >>
                   ELSE <<>>))

FieldClauses(body, f) ==
  IF f \in MultiFields THEN MultiFilter(body, f)
  ELSE IF f \in {"packetSizeMin", "packetSizeMax"} THEN SizeClause(body, f)
  ELSE IF f = "timeRange" THEN TimeClauses(body)
  ELSE NoClause

\* The order in which the clauses are pushed: fixed by the code.
KeyOrder(body) == [i \in DOMAIN body |-> body[i].key]
ClauseOrder(body) == Fields

\* The statements of the function body in order; a throw ends the call.
RECURSIVE Collect(_, _)
Collect(body, fs) ==
  IF fs = <<>> THEN NoClause
  ELSE LET head == FieldClauses(body, fs[1])
       IN IF head.threw THEN Threw
          ELSE LET rest == Collect(body, Tail(fs))
               IN IF rest.threw THEN Threw
                  ELSE Clauses(head.clauses \o rest.clauses)

\* return filters.join(' and ')
Compile(body) ==
  LET r == Collect(body, ClauseOrder(body))
  IN [threw |-> r.threw, expr |-> IF r.threw THEN <<>> ELSE Join(r.clauses, " and ")]

\* Request bodies: the empty object, every object with one key, the two
\* size bounds in either key order, and the object with every recognized
\* field written in each rotation of the key order.
SizeBodies ==
  {<<Pair("packetSizeMin", StrVal(<<"a">>)), Pair("packetSizeMax", StrVal(<<"B">>))>>,
   <<Pair("packetSizeMax", StrVal(<<"B">>)), Pair("packetSizeMin", StrVal(<<"a">>))>>}
FullBody ==
  [i \in DOMAIN Fields |->
     Pair(Fields[i], StrVal(IF Fields[i] = "timeRange" THEN <<"a", "/", "a">> ELSE <<"a">>))]
Rotate(seq, k) ==
  [i \in DOMAIN seq |-> seq[((i + k - 1) % Len(seq)) + 1]]
FullBodies == {Rotate(FullBody, k) : k \in 0..(Len(FullBody) - 1)}
Bodies ==
  {<<>>} \cup {<<Pair(k, v)>> : k \in Keys, v \in Values} \cup SizeBodies \cup FullBodies

\* The /config handler holding a request body and calling the compiler.
InitCompile ==
  /\ containerNames = <<>>
  /\ data = EmptyStore
  /\ proc = [a \in Agents |-> FALSE]
  /\ st = IdleStart
  /\ sp = IdleStop
  /\ cf \in {[pc |-> "received", body |-> b, result |-> [threw |-> FALSE, expr |-> <<>>]] :
              b \in Bodies}
  /\ cl = IdleClean
  /\ resp = NoResp
  /\ regCalls = <<>>
  /\ stopTrace = <<>>
  /\ hMerge = [raw |-> FALSE, tool |-> "none", cleared |-> FALSE, failed |-> FALSE]

CompileCall ==
  /\ cf.pc = "received"
  /\ cf' = [cf EXCEPT !.pc = "compiled", !.result = Compile(cf.body)]
  /\ UNCHANGED <<containerNames, data, proc, st, sp, cl, resp, regCalls, stopTrace, hMerge>>

NextCompile == CompileCall

SpecCompile == InitCompile /\ [][NextCompile]_vars

\* ------------------------------------------- agent: the capture process
\* The agent that launches tcpdump with spawn and listens to its 'close'
\* event.  proc holds the agent's side: tcpdumpProcess is the reference (a
\* process number, NoProcess for null), running the processes that have not
\* exited, killed those among them that were sent SIGINT, spawned the number
\* of processes launched so far.
NoProcess == 0

InitAgent ==
  /\ containerNames = <<>>
  /\ data = EmptyStore
  /\ proc = [tcpdumpProcess |-> NoProcess, running |-> {}, killed |-> {}, spawned |-> 0]
  /\ st = IdleStart
  /\ sp = IdleStop
  /\ cf = IdleConfig
  /\ cl = IdleClean
  /\ resp = NoResp
  /\ regCalls = <<>>
  /\ stopTrace = <<>>
  /\ hMerge = [raw |-> FALSE, tool |-> "none", cleared |-> FALSE, failed |-> FALSE]

\* GET /start: if (tcpdumpProcess) 400; else tcpdumpProcess = spawn(...),
\* the 'close' listener is attached, and the handler answers 200.
SpawnStart ==
  /\ IF proc.tcpdumpProcess # NoProcess
     THEN /\ resp' = [NoResp EXCEPT !.op = "agentStart", !.status = 400,
                                    !.body = "tcpdump is already running."]
          /\ proc' = proc
     ELSE /\ proc.spawned < MaxSpawns
          /\ LET pid == proc.spawned + 1
             IN proc' = [proc EXCEPT !.tcpdumpProcess = pid,
                                     !.running = @ \cup {pid},
                                     !.spawned = pid]
          /\ resp' = [NoResp EXCEPT !.op = "agentStart", !.status = 200,
                                    !.body = "tcpdump started."]
  /\ UNCHANGED <<containerNames, data, st, sp, cf, cl, regCalls, stopTrace, hMerge>>

\* GET /stop: if (!tcpdumpProcess) 400; else the answer is sent,
\* tcpdumpProcess.kill('SIGINT'), tcpdumpProcess = null.  The process exits
\* later.
KillStop ==
  /\ IF proc.tcpdumpProcess = NoProcess
     THEN /\ resp' = [NoResp EXCEPT !.op = "agentStop", !.status = 400,
                                    !.body = "tcpdump is not running."]
          /\ proc' = proc
     ELSE /\ proc' = [proc EXCEPT !.killed = @ \cup ({proc.tcpdumpProcess} \cap proc.running),
                                  !.tcpdumpProcess = NoProcess]
          /\ resp' = [NoResp EXCEPT !.op = "agentStop", !.status = 200,
                                    !.body = "Stopping process."]
  /\ UNCHANGED <<containerNames, data, st, sp, cf, cl, regCalls, stopTrace, hMerge>>

\* tcpdumpProcess.on('close', ...) of process p: the process has exited
\* (after the signal, or on its own) and its listener runs
\* tcpdumpProcess = null, whatever the reference holds by then.
Close(p) ==
  /\ p \in proc.running
  /\ proc' = [proc EXCEPT !.running = @ \ {p}, !.killed = @ \ {p},
                          !.tcpdumpProcess = NoProcess]
  /\ resp' = NoResp
  /\ UNCHANGED <<containerNames, data, st, sp, cf, cl, regCalls, stopTrace, hMerge>>

NextAgent ==
  \/ SpawnStart
  \/ KillStop
  \/ \E p \in proc.running : Close(p)

SpecAgent == InitAgent /\ [][NextAgent]_vars

\* =============================================================== claims
Range(s) == {s[i] : i \in DOMAIN s}
FirstIndex(s, x) == CHOOSE i \in DOMAIN s : s[i] = x /\ \A j \in 1..(i - 1) : s[j] # x

\* C1: after any sequence of register calls the registry holds each distinct
\* identity exactly once, in the order of first registration, its size is
\* the number of distinct identities, and every call (duplicate or not) is
\* answered with the 'received' confirmation for the identity it passed.
C1_RegistryIsDistinctCalls ==
  /\ \A i, j \in DOMAIN containerNames :
       i # j => containerNames[i] # containerNames[j]
  /\ Range(containerNames) = Range(regCalls)
  /\ Len(containerNames) = Cardinality(Range(regCalls))
  /\ \A i, j \in DOMAIN containerNames :
       i < j => FirstIndex(regCalls, containerNames[i]) < FirstIndex(regCalls, containerNames[j])
  /\ regCalls # <<>> =>
       /\ resp.op = "register"
       /\ resp.status = 200
       /\ resp.body = "received"
       /\ resp.name = regCalls[Len(regCalls)]

C1_Witness ==
  /\ Len(regCalls) = 4
  /\ regCalls[1] = regCalls[3]
  /\ regCalls[2] = regCalls[4]
  /\ Len(containerNames) = 2

\* C2: no step of any operation removes or moves a registered identity: the
\* registry before a step is a prefix of the registry after it.
C2_RegistryOnlyGrows ==
  [][/\ Len(containerNames) <= Len(containerNames')
     /\ \A i \in DOMAIN containerNames : containerNames'[i] = containerNames[i]]_vars

C2_Witness ==
  /\ Len(containerNames) = 2
  /\ resp.op = "cleanConf"
  /\ hMerge.tool = "ok"
  /\ hMerge.cleared

\* C3: a start() or stop() taken while the registry is empty answers 400
\* (NoAgentsRegistered) and does nothing else: no handler leaves idle, no
\* agent call is issued, no file of the store is deleted or created, no
\* agent is touched and no pipeline stage runs.
C3_EmptyRegistryRejected ==
  [][(/\ Len(containerNames) = 0
      /\ \/ st' # st
         \/ sp' # sp
         \/ resp'.op \in {"start", "stop"})
     => /\ resp'.op \in {"start", "stop"}
        /\ resp'.status = 400
        /\ resp'.body = IF resp'.op = "start"
                        THEN "No container names available to start."
                        ELSE "No container names available to stop."
        /\ st' = st /\ st.pc = "idle" /\ st.calls = <<>>
        /\ sp' = sp /\ sp.pc = "idle" /\ sp.calls = <<>>
        /\ data' = data
        /\ proc' = proc
        /\ stopTrace' = <<>>
        /\ hMerge' = hMerge]_vars

C3_Witness ==
  /\ resp.op = "start"
  /\ resp.status = 400
  /\ data.merged.exists
  /\ data.raws # {}

\* C4: with at least one registered agent every answer of start() is a
\* success (200); the broadcast covers exactly the identities registered
\* when it began and keeps that list; the answer carries one outcome per
\* such identity, in that order; a settling call changes only its own
\* outcome, which is 'success' exactly when the agent accepted the request
\* (it was not capturing and now is) and 'failed' otherwise.
C4_StartReportsEveryAgent ==
  [][/\ (resp'.op = "start" /\ Len(containerNames) >= 1) => resp'.status = 200
     /\ (st.pc # "broadcast" /\ st'.pc = "broadcast") =>
          /\ st'.names = containerNames
          /\ Len(st'.calls) = Len(containerNames)
     /\ (st.pc = "broadcast" /\ st'.pc = "broadcast") =>
          /\ st'.names = st.names
          /\ \A i \in DOMAIN st.calls :
               IF st.calls[i] = "pending" /\ st'.calls[i] # "pending"
               THEN /\ st'.calls[i] \in {"success", "failed"}
                    /\ st'.calls[i] = "success" <=>
                         (~proc[st.names[i]] /\ proc'[st.names[i]])
                    /\ st'.calls[i] = "failed" => proc' = proc
                    /\ \A j \in DOMAIN st.calls : j # i => st'.calls[j] = st.calls[j]
               ELSE st'.calls[i] = st.calls[i]
     /\ (resp'.op = "start" /\ resp'.status = 200) =>
          /\ st.pc = "broadcast"
          /\ Len(resp'.results) = Len(st.names)
          /\ \A i \in DOMAIN st.names :
               /\ resp'.results[i].containerName = st.names[i]
               /\ resp'.results[i].status = st.calls[i]
               /\ resp'.results[i].status \in {"success", "failed"}]_vars

C4_Witness ==
  /\ resp.op = "start"
  /\ resp.status = 200
  /\ Len(resp.results) = 2
  /\ resp.results[1] = [containerName |-> "scan2", status |-> "failed"]
  /\ resp.results[2] = [containerName |-> "scan1", status |-> "success"]

\* C5: a broadcast is a join: while any call of a broadcast is pending the
\* handler stays in the broadcast (start has not answered; stop has begun
\* neither the grace wait nor the merge), and no answer of start or stop
\* ever carries a call that has not settled.
C5_BroadcastIsJoin ==
  /\ (sp.pc \notin {"idle", "broadcast"}) =>
       /\ Len(sp.calls) >= 1
       /\ \A i \in DOMAIN sp.calls : sp.calls[i] \in {"success", "failed"}
  /\ (stopTrace # <<>>) =>
       \A i \in DOMAIN sp.calls : sp.calls[i] \in {"success", "failed"}
  /\ (resp.op \in {"start", "stop"} /\ resp.status = 200) =>
       /\ Len(resp.results) >= 1
       /\ \A i \in DOMAIN resp.results : resp.results[i].status \in {"success", "failed"}

C5_Witness ==
  /\ sp.pc = "broadcast"
  /\ Len(sp.calls) = 2
  /\ sp.calls[1] = "pending"
  /\ sp.calls[2] = "failed"

\* C6: when start() issues its start signals (the broadcast begins) the store
\* holds no raw capture, no merged capture, no decoded record, no filtered
\* capture and no filtered record; and while start() is still clearing, no
\* call has been issued.
C6_ClearedBeforeStartSignals ==
  /\ (st.pc \in {"readdir", "unlink", "rmOutput", "rmFiltered", "rmFilteredJson"}) =>
       st.calls = <<>>
  /\ (st.pc = "broadcast" /\ \A i \in DOMAIN st.calls : st.calls[i] = "pending") =>
       /\ data.raws = {}
       /\ ~data.merged.exists
       /\ ~data.output.exists
       /\ ~data.filtered.exists
       /\ ~data.filteredJson.exists

C6_Witness ==
  /\ st.pc = "broadcast"
  /\ \A i \in DOMAIN st.calls : st.calls[i] = "pending"
  /\ hMerge.tool = "ok"
  /\ hMerge.cleared
  /\ data.config.exists
  /\ proc["scan1"]

IsPrefix(s, t) == Len(s) <= Len(t) /\ \A i \in DOMAIN s : s[i] = t[i]
StopOrder == <<"settled", "grace", "merge", "decode", "filter">>

\* C7: the stages of a stop() happen in the fixed order settle of all stop
\* calls, grace period, merge, decode, filter: the grace wait only begins
\* once every call has settled (whatever its outcome), the removal of the old
\* merge and the directory listing only happen once the grace period has
\* elapsed, decode only follows a merge, and the filter stage only follows
\* decode and only runs when a persisted FilterConfig exists.
C7_StopStagesInOrder ==
  /\ IsPrefix(stopTrace, StopOrder)
  /\ sp.pc \in {"idle", "broadcast"} => stopTrace = <<>>
  /\ sp.pc = "grace" => stopTrace = SubSeq(StopOrder, 1, 1)
  /\ sp.pc \in {"rm", "readdir"} => stopTrace = SubSeq(StopOrder, 1, 2)
  /\ sp.pc = "mergecap" => stopTrace = SubSeq(StopOrder, 1, 3)
  /\ sp.pc \in {"decode", "readFile"} => stopTrace = SubSeq(StopOrder, 1, 4)
  /\ sp.pc \in {"filterCmd", "filterDecode"} =>
       /\ stopTrace = StopOrder
       /\ data.config.exists
  /\ sp.pc \in {"decode", "readFile", "filterCmd", "filterDecode"} => data.merged.exists

C7_Witness ==
  /\ sp.pc = "filterDecode"
  /\ stopTrace = StopOrder
  /\ Len(sp.calls) = 2
  /\ sp.calls[1] = "failed"
  /\ sp.calls[2] = "failed"

\* C8: when the merge of a stop() lists the directory and no raw capture is
\* present, stop() answers with the error 'No .pcap files found to merge.'
\* (NoCapturesToMerge), ends there, and no merged capture exists afterwards.
C8_NoCapturesToMerge ==
  [][(sp.pc = "readdir" /\ sp'.pc # "readdir" /\ data.raws = {})
     => /\ resp'.op = "stop"
        /\ resp'.status = 500
        /\ resp'.body = "No .pcap files found to merge."
        /\ sp'.pc = "idle"
        /\ ~data'.merged.exists]_vars

C8_Witness ==
  /\ resp.op = "stop"
  /\ resp.body = "No .pcap files found to merge."
  /\ data.config.exists
  /\ ~hMerge.raw

\* C9 as stated: between operations a merged capture exists if and only if
\* a raw capture existed at the most recent stop().
C9_MergedIffRawAtLastStop ==
  Quiet => (data.merged.exists <=> hMerge.raw)

\* C9 as amended: between operations a merged capture exists only if a raw
\* capture existed at the most recent stop(), the merge tool of that stop ran
\* and no start() has been accepted since; and it does exist whenever a raw
\* capture existed at the most recent stop(), its merge tool succeeded and no
\* start() has been accepted since.
C9_MergedSinceLastStop ==
  Quiet =>
    /\ data.merged.exists =>
         (hMerge.raw /\ hMerge.tool \in {"ok", "failed"} /\ ~hMerge.cleared)
    /\ (hMerge.raw /\ hMerge.tool = "ok" /\ ~hMerge.cleared) => data.merged.exists

C9_Witness ==
  /\ Quiet
  /\ resp.op = "stop"
  /\ resp.status = 200
  /\ data.merged.exists
  /\ data.merged.pkts = [a \in Agents |-> 1]

\* C10: the files handed to the merge tool by stop() are exactly the raw
\* captures present; a filtered capture left by an earlier stop() or
\* submitConfig() is not among them.
C10_MergeInputIsRawOnly ==
  sp.pc = "mergecap" =>
    /\ sp.pcapFiles = {<<"dumpfile", a>> : a \in data.raws}
    /\ <<"filtered", "">> \notin sp.pcapFiles

AfterMerge == {"decode", "readFile", "filterCmd", "filterDecode"}

\* C11: a stop() that ends in the merge (no capture to merge, or the merge
\* tool fails) answers with the merge error alone; a stop() that ends after a
\* successful merge, whether decode or filter failed or not, answers with a
\* result that carries the per-agent stop outcomes.
C11_StopFailureSplit ==
  [][/\ (resp'.op = "stop" /\ sp.pc \in {"readdir", "mergecap"}) =>
          /\ resp'.status = 500
          /\ resp'.body \in {"No .pcap files found to merge.", "Command failed: mergecap"}
     /\ (resp'.op = "stop" /\ sp.pc \in AfterMerge) =>
          /\ resp'.status = 200
          /\ resp'.results = Results(sp.names, sp.calls)]_vars

\* C12: when stop() answers 200, the record is the filtered record (the
\* decode of the filtered capture now in the store) if a FilterConfig is
\* persisted and the filter status is 'ok', and the decoded record of the
\* merged capture otherwise; a filter status is present exactly when a
\* FilterConfig is persisted, and an error is attached exactly when the
\* status is 'ko'.
C12_StopRecordAndStatus ==
  [][(resp'.op = "stop" /\ resp'.status = 200) =>
       /\ IF data.config.exists /\ resp'.filterStatus = "ok"
          THEN /\ resp'.pcapData = data'.filteredJson
               /\ resp'.pcapData = JsonArray(data'.filtered.pkts)
               /\ data'.filtered.pkts =
                    ApplyFilter(FilterExpr(data.config), data'.merged.pkts)
          ELSE /\ resp'.pcapData = data'.output
               /\ resp'.pcapData = JsonArray(data'.merged.pkts)
       /\ resp'.filterStatus \in {"ok", "ko"} <=> data.config.exists
       /\ resp'.filterStatus = "undefined" <=> ~data.config.exists
       /\ resp'.error # "undefined" <=> resp'.filterStatus = "ko"]_vars

C12_Witness ==
  /\ resp.op = "stop"
  /\ resp.status = 200
  /\ resp.filterStatus = "ok"
  /\ data.config.exists
  /\ resp.pcapData = data.filteredJson
  /\ resp.pcapData # data.output

\* C13: every answer of submitConfig is a successful persistence
\* confirmation (never an error answer) and the submitted config is persisted,
\* whatever mapping was submitted.
C13_SubmitNeverFails ==
  [][resp'.op = "config" =>
       /\ data'.config.exists
       /\ resp'.status = 200
       /\ resp'.body \in {"Configuration saved and filtering succeeded",
                          "Configuration saved successfully (no merged.pcap to filter yet)"}]_vars

\* C14: a submitConfig that arrives while no merged capture exists persists
\* the config, leaves the filtered capture and the filtered record absent or
\* as they were, and answers at once with the plain confirmation, which
\* carries no filter status and no filter failure.
C14_SubmitWithoutMerged ==
  [][(cf.pc = "idle" /\ ~data.merged.exists /\ resp'.op = "config") =>
       /\ data'.config.exists
       /\ cf'.pc = "idle"
       /\ data'.filtered = data.filtered
       /\ data'.filteredJson = data.filteredJson
       /\ resp'.op = "config"
       /\ resp'.status = 200
       /\ resp'.body = "Configuration saved successfully (no merged.pcap to filter yet)"
       /\ resp'.filterStatus = "undefined"
       /\ resp'.error = "undefined"]_vars

\* The config that was persisted before the submission that is answered by
\* the step.
PrevConfig == IF cf.pc = "idle" THEN data.config ELSE cf.prev

\* C15: when a submitConfig that replaces an earlier config is answered
\* after a successful stop() (a merged capture exists), the persisted config
\* is the submitted one and the filtered capture is the merged capture
\* filtered with the compiled new config alone.
C15_SubmitReplaces ==
  [][(resp'.op = "config" /\ data.merged.exists /\ hMerge.tool = "ok"
        /\ PrevConfig.exists) =>
       /\ data'.config.exists
       /\ cf.pc # "idle" => data'.config = cf.config
       /\ Compiles(data'.config)
       /\ data'.filtered =
            CapFile(ApplyFilter(FilterExpr(data'.config), data'.merged.pkts))]_vars

\* C16: between operations, if no config is persisted or the persisted
\* config compiles to the empty expression, and a filtered capture exists,
\* then the merged capture exists and the filtered capture has the same
\* content.
C16_FilteredIsCopy ==
  (/\ Quiet
   /\ ~data.config.exists \/ (Compiles(data.config) /\ FilterExpr(data.config) = {})
   /\ data.filtered.exists)
  => /\ data.merged.exists
     /\ data.filtered.pkts = data.merged.pkts

\* C17: when a submitConfig of the empty config, arriving while a merged
\* capture exists and a config with a non-empty ip list is persisted, is
\* answered, the filtered capture has the content of the merged capture.
C17_EmptyConfigRoundTrip ==
  [][(/\ resp'.op = "config"
      /\ cf.pc # "idle"
      /\ cf.config.ipIsString /\ cf.config.ip = {}
      /\ cf.prev.exists /\ cf.prev.ipIsString /\ cf.prev.ip # {}
      /\ data.merged.exists)
     => /\ data'.merged = data.merged
        /\ data'.filtered = CapFile(data'.merged.pkts)]_vars

\* A filtered capture and a filtered record of store d, if present, are
\* what the persisted config makes of the merged capture of d.
DerivedFromCurrent(d) ==
  /\ d.filtered.exists =>
       /\ d.config.exists /\ Compiles(d.config)
       /\ d.merged.exists
       /\ d.filtered.pkts = ApplyFilter(FilterExpr(d.config), d.merged.pkts)
  /\ d.filteredJson.exists =>
       /\ d.filtered.exists
       /\ d.filteredJson = JsonArray(d.filtered.pkts)

\* C18: after a stop() that wrote a new merged capture while a config is
\* persisted, and after a submitConfig() that arrived while a merged capture
\* existed, any filtered capture or filtered record in the store is derived
\* from the merged capture and the config now in the store.
C18_FilteredRecomputed ==
  [][(\/ resp'.op = "config" /\ data.merged.exists
      \/ resp'.op = "stop" /\ sp.pc \in AfterMerge /\ data'.config.exists)
     => DerivedFromCurrent(data')]_vars

FilterStages == {"filterCmd", "filterDecode"}

\* C19: no step of reset() changes a raw capture, the merged capture, the
\* merged decoded record, the registry or an agent; reset() always answers
\* 200, also when there was nothing to delete, and when it answers neither
\* the config nor the filtered capture nor the filtered record exists; a
\* stop() that runs while no config is persisted never enters the filter
\* stage, answers without a filter status and leaves the filtered files as
\* they are.
C19_ResetFrame ==
  [][/\ (cl' # cl \/ resp'.op = "cleanConf") =>
          /\ data'.raws = data.raws
          /\ data'.merged = data.merged
          /\ data'.output = data.output
          /\ containerNames' = containerNames
          /\ proc' = proc
     /\ resp'.op = "cleanConf" =>
          /\ resp'.status = 200
          /\ ~data'.config.exists
          /\ ~data'.filtered.exists
          /\ ~data'.filteredJson.exists
     /\ (sp.pc = "readFile" /\ ~data.config.exists) =>
          /\ sp'.pc \notin FilterStages
          /\ data'.filtered = data.filtered
          /\ data'.filteredJson = data.filteredJson
          /\ resp'.op = "stop" => resp'.filterStatus = "undefined"
     /\ sp'.pc \in FilterStages => data'.config.exists]_vars

C19_Witness ==
  /\ cl.pc = "rmFilteredJson"
  /\ ~data.config.exists
  /\ ~data.filtered.exists
  /\ data.filteredJson.exists
  /\ data.merged.exists
  /\ data.output.exists
  /\ data.raws # {}
  /\ Len(containerNames) = 2

\* A tagged result: 'ok' with a parsed record and no error, or 'ko' with an
\* error message and no record.
IsTagged(r) ==
  \/ /\ r.status = "ok"
     /\ r.filteredJsonData.exists /\ r.filteredJsonData.text = "array"
     /\ r.errorMsg = "undefined"
  \/ /\ r.status = "ko"
     /\ ~r.filteredJsonData.exists
     /\ r.errorMsg # "undefined"

\* C20: whatever the store holds and however the filter command and the
\* decoder end, filter() hands its caller a tagged result: submitConfig
\* answers from it with the filtered record ('ok') or with the error and no
\* record ('ko'), never with the answer of its own catch; stop() answers
\* with status 'ok' and the filtered record or with status 'ko' and the error,
\* unless its own parse of the merged record throws.
C20_FilterNeverRaises ==
  [][/\ \A out \in DecodeOutcomes :
          IsTagged(FilterResult(FilterDecodeDone(data, out), out))
     /\ IsTagged(FilterKo)
     /\ (cf.pc \in FilterStages /\ cf'.pc = "idle") =>
          /\ resp'.op = "config"
          /\ \/ /\ resp'.status = 200
                /\ resp'.body = "Configuration saved and filtering succeeded"
                /\ resp'.pcapData = data'.filteredJson
                /\ resp'.pcapData.text = "array"
                /\ resp'.error = "undefined"
             \/ /\ resp'.status = 422
                /\ resp'.pcapData = NoJson
                /\ resp'.error # "undefined"
     /\ (sp.pc \in FilterStages /\ sp'.pc = "idle") =>
          /\ resp'.op = "stop"
          /\ \/ /\ resp'.status = 200
                /\ resp'.filterStatus = "ok"
                /\ resp'.pcapData = data'.filteredJson
                /\ resp'.pcapData.text = "array"
                /\ resp'.error = "undefined"
             \/ /\ resp'.status = 200
                /\ resp'.filterStatus = "ko"
                /\ resp'.pcapData = sp.jsonData
                /\ resp'.error # "undefined"
             \/ /\ resp'.status = 500
                /\ sp.jsonData.text # "array"
                /\ resp'.body = "Unexpected end of JSON input"]_vars

C20_Witness ==
  /\ resp.op = "config"
  /\ resp.status = 422
  /\ resp.error = "Filtering failed"
  /\ data.filtered.exists
  /\ data.filteredJson = JsonEmpty
  /\ data.merged.exists

\* The record a filter run over store d with config c produces.
FreshFiltered(d, c) == JsonArray(ApplyFilter(FilterExpr(c), d.merged.pkts))

\* C21: a filter run whose filter command fails, or whose decode fails or
\* leaves nothing that parses, ends with 'ko' and no record: submitConfig
\* answers 422 without a record, stop() answers with status 'ko' and the
\* merged record; a run that ends with 'ok' returns the record decoded in
\* this run from the filtered capture written in this run, never a filtered
\* record that an earlier run left in the store.
C21_KoHasNoRecord ==
  [][/\ (cf.pc = "filterCmd" /\ cf'.pc = "idle") =>
          (resp'.status = 422 /\ resp'.pcapData = NoJson /\ data' = data)
     /\ (cf.pc = "filterDecode" /\ cf'.pc = "idle"
           /\ data'.filteredJson.text # "array") =>
          (resp'.status = 422 /\ resp'.pcapData = NoJson)
     /\ (cf.pc = "filterDecode" /\ cf'.pc = "idle" /\ resp'.status = 200) =>
          /\ resp'.pcapData = FreshFiltered(data, cf.config)
          /\ data'.filteredJson = resp'.pcapData
     /\ (sp.pc = "filterCmd" /\ sp'.pc = "idle" /\ resp'.status = 200) =>
          (resp'.filterStatus = "ko" /\ resp'.pcapData = sp.jsonData /\ data' = data)
     /\ (sp.pc = "filterDecode" /\ sp'.pc = "idle"
           /\ data'.filteredJson.text # "array" /\ resp'.status = 200) =>
          (resp'.filterStatus = "ko" /\ resp'.pcapData = sp.jsonData)
     /\ (sp.pc = "filterDecode" /\ sp'.pc = "idle" /\ resp'.filterStatus = "ok") =>
          /\ resp'.pcapData = FreshFiltered(data, sp.config)
          /\ data'.filteredJson = resp'.pcapData]_vars

\* The decoder of a filter run is about to end while the store still holds
\* the filtered record of an earlier run, which differs from the capture
\* just filtered.
C21_Witness ==
  /\ cf.pc = "filterDecode"
  /\ data.filteredJson.text = "array"
  /\ data.filteredJson.pkts # data.filtered.pkts

\* C22: a stop() whose decode of the merged capture exits with an error
\* fails (500) and leaves no record of an earlier stop() in output.json;
\* after any decode step output.json holds either the record of the merged
\* capture just written or nothing that parses; and the merged record that a
\* successful stop() returns is the decode of the merged capture of this
\* stop().
C22_NoLeftoverRecord ==
  [][/\ (sp.pc = "decode" /\ sp'.pc = "idle") =>
          /\ resp'.op = "stop"
          /\ resp'.status = 500
          /\ data'.output = JsonEmpty
     /\ (sp.pc = "decode" /\ sp'.pc # "decode") =>
          data'.output \in {JsonArray(data.merged.pkts), JsonEmpty}
     /\ (resp'.op = "stop" /\ resp'.status = 200 /\ resp'.filterStatus # "ok") =>
          /\ resp'.pcapData = JsonArray(data'.merged.pkts)
          /\ hMerge.tool = "ok"]_vars

\* The decoder of a stop() is about to end while output.json still holds the
\* record of an earlier stop(), which differs from the capture just merged.
C22_Witness ==
  /\ sp.pc = "decode"
  /\ data.output.text = "array"
  /\ data.output.pkts # data.merged.pkts

Recognized == {Fields[i] : i \in DOMAIN Fields}
Compiled == cf.pc = "compiled"
OneField == Len(cf.body) = 1

\* C23: a config in which every recognized field is missing or holds the
\* empty string (the empty object, only unrecognized fields, recognized
\* fields with empty values) compiles, without a throw, to the empty
\* expression.
C23_EmptyCompilesEmpty ==
  (/\ Compiled
   /\ \A f \in Recognized : Get(cf.body, f) \in {Undefined, StrVal(<<>>)})
  => /\ ~cf.result.threw
     /\ cf.result.expr = <<>>

C23_Witness ==
  /\ Compiled
  /\ cf.body = <<Pair("packetSizeMin", StrVal(<<>>))>>
  /\ cf.result.expr = <<>>

\* C24: compile returns an expression without raising for every config
\* mapping, including values that are numbers.
C24_CompileTotal ==
  Compiled => ~cf.result.threw

\* A string made only of whitespace and separators.
BlankOnly(str) == \A i \in DOMAIN str : str[i] \in {" ", ","}

\* C25: a recognized field, the size bounds and the time range included,
\* whose value is a string of only whitespace and separators contributes no
\* clause: alone in a config it compiles to the empty expression.
C25_BlankFieldAbsent ==
  (/\ Compiled
   /\ OneField
   /\ cf.body[1].key \in Recognized
   /\ cf.body[1].val.type = "string"
   /\ BlankOnly(cf.body[1].val.s))
  => /\ ~cf.result.threw
     /\ cf.result.expr = <<>>

\* The entries of a comma-separated string read off by position: the
\* stretch between two neighbouring separators, from its first to its last
\* character that is not a space, when it has one.
Bounds(str) == {0, Len(str) + 1} \cup {i \in DOMAIN str : str[i] = ","}
NextBound(str, b) == CHOOSE c \in Bounds(str) : c > b /\ \A d \in Bounds(str) : d > b => c <= d
Inner(str, b) == {i \in DOMAIN str : b < i /\ i < NextBound(str, b) /\ str[i] # " "}
EntryStarts(str) == {b \in Bounds(str) \ {Len(str) + 1} : Inner(str, b) # {}}
Entry(str, b) ==
  LET in == Inner(str, b)
  IN SubSeq(str, CHOOSE i \in in : \A j \in in : i <= j,
                 CHOOSE i \in in : \A j \in in : j <= i)
EntrySeq(str) ==
  [k \in 1..Cardinality(EntryStarts(str)) |->
     Entry(str, CHOOSE b \in EntryStarts(str) :
                  Cardinality({c \in EntryStarts(str) : c < b}) = k - 1)]
CountOf(seq, tok) == Cardinality({i \in DOMAIN seq : seq[i] = tok})

\* C26: a multi-value field whose string has n >= 1 non-blank entries, alone
\* in a config, compiles to one parenthesized sub-expression: the predicates
\* of exactly those n trimmed entries in input order, joined by n - 1 ORs.
C26_OrOfNPredicates ==
  (/\ Compiled
   /\ OneField
   /\ cf.body[1].key \in MultiFields
   /\ cf.body[1].val.type = "string"
   /\ EntryStarts(cf.body[1].val.s) # {})
  => LET f == cf.body[1].key
         entries == EntrySeq(cf.body[1].val.s)
         e == cf.result.expr
     IN /\ ~cf.result.threw
        /\ e[1] = "(" /\ e[Len(e)] = ")"
        /\ CountOf(e, " or ") = Len(entries) - 1
        /\ CountOf(e, " and ") = 0
        /\ e = <<"(">> \o Join([k \in DOMAIN entries |-> Pred(f, entries[k])], " or ")
                \o <<")">>

C26_Witness ==
  /\ Compiled
  /\ cf.body = <<Pair("ip", StrVal(<<"a", ",", "B">>))>>
  /\ cf.result.expr = <<"(", "ip.addr == ", "a", " or ", "ip.addr == ", "B", ")">>

\* The expression of the config that populates every recognized field with
\* the value a (the time range with a/a), written out clause by clause.
ExpectedFull ==
  <<"(", "ip.addr == ", "a", ")", " and ",
    "(", "(tcp.port == ", "a", " or udp.port == ", "a", ")", ")", " and ",
    "(", "a", ")", " and ",
    "(", "ip.src == ", "a", ")", " and ",
    "(", "ip.dst == ", "a", ")", " and ",
    "(", "(tcp.srcport == ", "a", " or udp.srcport == ", "a", ")", ")", " and ",
    "(", "(tcp.dstport == ", "a", " or udp.dstport == ", "a", ")", ")", " and ",
    "frame.len >= ", "a", " and ",
    "frame.len <= ", "a", " and ",
    "frame.time >= \"", "a", "\"", " and ",
    "frame.time <= \"", "a", "\"", " and ",
    "(", "tcp.flags.", "a", " == 1", ")", " and ",
    "(", "frame contains \"", "a", "\"", ")", " and ",
    "(", "eth.addr == ", "a", ")">>

\* C27: the clauses of the populated fields are ANDed in the order ip, port,
\* protocol, sourceIp, destinationIp, sourcePort, destinationPort,
\* packetSizeMin, packetSizeMax, timeRange start, timeRange end, tcpFlags,
\* payloadContent, macAddress, whatever the key order of the config: every
\* rotation of the keys of the full config compiles to the same expression,
\* and so do the two size bounds in either order.
C27_CanonicalOrder ==
  /\ (Compiled /\ cf.body \in FullBodies) =>
       (~cf.result.threw /\ cf.result.expr = ExpectedFull)
  /\ (Compiled /\ cf.body \in SizeBodies) =>
       (~cf.result.threw
        /\ cf.result.expr = <<"frame.len >= ", "a", " and ", "frame.len <= ", "B">>)

C27_Witness ==
  /\ Compiled
  /\ cf.body = Rotate(FullBody, 5)
  /\ cf.body[1].key = "sourcePort"
  /\ cf.result.expr = ExpectedFull

\* C28: every answer of register, start, stop, submitConfig and reset,
\* rejections included, comes from an operation that appended at least one
\* log entry, after which the log exists; and no step deletes the log.
C28_EveryOperationLogs ==
  [][/\ resp'.op # "none" => (resp'.logged /\ data'.log)
     /\ data.log => data'.log]_vars

\* C29: whether or not a log write fails, no request is left unanswered, a
\* settling start call is reported 'success' exactly when the agent accepted
\* it, a settling stop call exactly when the agent stopped its capture, and
\* submitConfig never answers with the error of its own catch while no
\* merged capture exists.
C29_LogFailureHarmless ==
  [][/\ st'.pc # "crashed" /\ sp'.pc # "crashed" /\ cf'.pc # "crashed"
     /\ \A i \in DOMAIN st.calls :
          (st.pc = "broadcast" /\ st.calls[i] = "pending" /\ st'.pc = "broadcast"
             /\ st'.calls[i] # "pending") =>
            (st'.calls[i] = "success" <=> (~proc[st.names[i]] /\ proc'[st.names[i]]))
     /\ \A i \in DOMAIN sp.calls :
          (sp.pc = "broadcast" /\ sp.calls[i] = "pending" /\ sp'.pc = "broadcast"
             /\ sp'.calls[i] # "pending") =>
            (sp'.calls[i] = "success" <=> (proc[sp.names[i]] /\ ~proc'[sp.names[i]]))
     /\ (resp'.op = "config" /\ cf.pc = "idle" /\ ~data.merged.exists) =>
          resp'.status # 500]_vars

\* C30: pipeline executions are serialized: a config submission is never
\* running its filter stages (which read merged.pcap and write filtered.pcap
\* and filtered.json) while a stop is running its merge, decode or filter
\* stages on the same paths.
StopStages ==
  {"rm", "readdir", "mergecap", "decode", "readFile", "filterCmd", "filterDecode"}
C30_PipelinesSerialized == ~(sp.pc \in StopStages /\ cf.pc \in FilterStages)

\* C31: every stop() that passed the registry check is eventually answered,
\* and whatever the answer (200 or 500) the handler keeps nothing of the
\* round: the next start() and stop() find the coordinator as after a
\* successful stop().
C31_StopNeverBlocks ==
  /\ (sp.pc # "idle") ~> (resp.op = "stop")
  /\ [][resp'.op = "stop" => (sp' = IdleStop /\ st' = st /\ containerNames' = containerNames)]_vars

\* A stop() answers 200 with a decoded record after an earlier stop() ended
\* in a merge or decode failure.
C31_Witness ==
  /\ resp.op = "stop"
  /\ resp.status = 200
  /\ resp.pcapData.exists
  /\ hMerge.failed

\* The stop() in flight has broadcast to both agents, both accepted, both
\* raw captures were inputs of a merge that succeeded, and the merged
\* capture was decoded into a record.
BothStoppedAndMerged ==
  /\ sp.pc \in {"readFile", "filterCmd", "filterDecode"}
  /\ Len(sp.names) = 2
  /\ \A i \in DOMAIN sp.calls : sp.calls[i] = "success"
  /\ \A a \in Agents : RawName(a) \in sp.pcapFiles
  /\ IF sp.pc = "readFile" THEN data.output.text = "array"
     ELSE sp.jsonData.text = "array"

\* C32: end to end: a stop() whose two agent calls succeeded and whose merge
\* and decode succeeded on both raw captures answers 200 with two 'success'
\* outcomes and a decoded record, and leaves a merged capture that holds the
\* packets of both raw captures.
C32_EndToEnd ==
  [][(BothStoppedAndMerged /\ resp'.op = "stop") =>
       /\ resp'.status = 200
       /\ Len(resp'.results) = 2
       /\ \A i \in 1..2 : resp'.results[i].status = "success"
       /\ resp'.pcapData.exists
       /\ data'.merged.exists
       /\ \A a \in Agents : data'.merged.pkts[a] >= 1]_vars

\* The capture processes of the agent that were not told to stop.
Capturing == proc.running \ proc.killed

\* C33: on an agent at most one capture process that was not told to stop
\* exists at any time, and the agent's reference points to it.
C33_SingleCaptureProcess ==
  /\ Cardinality(Capturing) <= 1
  /\ \A p \in Capturing : proc.tcpdumpProcess = p

\* C34: a start call that settles on an agent that is already capturing is
\* recorded 'failed', starts nothing and writes nothing; a stop call that
\* settles on an agent that is not capturing is recorded 'failed' and stops
\* nothing; a broadcast holds one call per registered identity, each step
\* settles at most one of them, and a settled outcome is never changed
\* (no retry).
C34_RefusalIsFailedOnce ==
  [][/\ (st.pc = "broadcast" /\ st'.pc = "broadcast") =>
          /\ \A i, j \in DOMAIN st.names : i # j => st.names[i] # st.names[j]
          /\ \A i \in DOMAIN st.calls :
               /\ st.calls[i] # "pending" => st'.calls[i] = st.calls[i]
               /\ (st.calls[i] = "pending" /\ st'.calls[i] # "pending") =>
                    /\ \A j \in DOMAIN st.calls : j # i => st'.calls[j] = st.calls[j]
                    /\ proc[st.names[i]] =>
                         (st'.calls[i] = "failed" /\ proc' = proc /\ data' = data)
     /\ (sp.pc = "broadcast" /\ sp'.pc = "broadcast") =>
          /\ \A i, j \in DOMAIN sp.names : i # j => sp.names[i] # sp.names[j]
          /\ \A i \in DOMAIN sp.calls :
               /\ sp.calls[i] # "pending" => sp'.calls[i] = sp.calls[i]
               /\ (sp.calls[i] = "pending" /\ sp'.calls[i] # "pending") =>
                    /\ \A j \in DOMAIN sp.calls : j # i => sp'.calls[j] = sp.calls[j]
                    /\ ~proc[sp.names[i]] =>
                         (sp'.calls[i] = "failed" /\ proc' = proc
                            /\ data'.raws = data.raws)
     /\ (sp.pc \notin {"idle", "broadcast"} /\ sp'.pc # "idle") => sp'.calls = sp.calls]_vars

\* start() has answered with a 'failed' outcome for an agent that is
\* capturing: it was capturing when its call settled.
C34_Witness ==
  /\ resp.op = "start"
  /\ resp.status = 200
  /\ \E i \in DOMAIN resp.results :
       /\ resp.results[i].status = "failed"
       /\ proc[resp.results[i].containerName]

\* C35: the persisted FilterConfig is only written by a config submission
\* (which leaves one persisted) and only removed by reset(); no step of
\* start() or stop() changes it; and the config a stop() compiles and
\* filters with is the persisted one.
C35_ConfigSurvivesRounds ==
  [][/\ data'.config # data.config =>
          \/ /\ cf.pc = "idle"
             /\ cf'.pc # "idle" \/ resp'.op = "config"
             /\ data'.config.exists
          \/ /\ cl.pc = "rmConfig"
             /\ ~data'.config.exists
     /\ (st.pc # "idle" \/ st'.pc # "idle" \/ sp.pc # "idle" \/ sp'.pc # "idle") =>
          data'.config = data.config
     /\ (sp.pc = "decode" /\ sp'.pc = "readFile") => sp'.config = data.config
     /\ sp'.pc \in {"readFile", "filterCmd", "filterDecode"} => sp'.config = data'.config
     /\ (sp.pc = "filterCmd" /\ sp'.pc = "filterDecode") =>
          data'.filtered =
            CapFile(ApplyFilter(FilterExpr(data.config), data.merged.pkts))]_vars

\* A config submitted in an earlier round is still persisted when a later
\* start() has finished clearing and issues its start signals.
C35_Witness ==
  /\ st.pc = "broadcast"
  /\ hMerge.tool = "ok"
  /\ data.filtered = NoFile
  /\ data.config.exists
  /\ data.config.ip = {"scan1"}

====
